---- MODULE Spec2Model ----
(***************************************************************************)
(* A model of yaap (src/yaap.h): the classes Option, OptionArg<T,N> and    *)
(* Parser.  A Parser is built over a command line (argc, argv); every      *)
(* AddOption / AddOptionArg call scans the whole command line at once,     *)
(* pushes the new option on optionVector and may raise the parser's error  *)
(* flag.  IsCommandLineValid, Usage and SetDescription are the remaining   *)
(* public methods of Parser.                                               *)
(*                                                                         *)
(* Strings are sequences of one-character strings; the terminating '\0'    *)
(* of a C string is the value NUL, read at the position one past the last  *)
(* character.  Indices of argv and of characters are the C indices (from   *)
(* 0), so argv[i] of the source is argv[i + 1] of the TLA+ sequence.       *)
(* OptionArg is modelled for T = int: operator>> parses an optional sign   *)
(* followed by decimal digits.                                             *)
(***************************************************************************)
EXTENDS Integers, Sequences, FiniteSets, TLC

\* Bounds of the model.
MaxArgs == 3      \* command-line tokens after the program name
MaxSeqArgs == 2   \* the same, in the specification with several declarations
MaxDecl == 2      \* declarations made on one Parser
MaxArity == 2     \* N of OptionArg<T,N>

\* The terminating character of a C string.
NUL == "NUL"

\* The characters of the command line: the dash, a letter and a digit.
\* The tokens are the shapes the scanning code tells apart: a lone dash, a
\* double dash, a bare letter, a bare number, one flag after a dash (letter
\* or digit, the latter also a negative number) and two characters
\* concatenated after one dash, in both orders.
Tokens ==
    { <<"-">>, <<"-", "-">>, <<"s">>, <<"1">>,
      <<"-", "s">>, <<"-", "1">>, <<"-", "s", "1">>, <<"-", "1", "s">> }

\* The tokens of the specification with several declarations: a flag, a
\* number and a word, enough for every kind of error.
SeqTokens == { <<"-", "s">>, <<"1">>, <<"s">> }

\* argv[0]; a login shell is started with a name that begins with a dash.
ProgName == <<"-", "s">>

\* The flag characters and the description texts the callers pass.
FlagIds == {"-", "s", "1"}
Descriptions == {"", "d"}
FlagDescription == "f"

\* What an uninitialized int may hold.
Indeterminate == {0, 1}

CommandLines(tokens, n) ==
    UNION { { <<ProgName>> \o rest : rest \in [1..m -> tokens] } : m \in 0..n }

VARIABLES
    argv,          \* Parser::argv (Parser::nbArgs is its length)
    optionVector,  \* Parser::optionVector, the options themselves
    error,         \* Parser::error
    description,   \* Parser::description
    ret,           \* the last call: its name, what it returned ("true" or
                   \* "false", "option" for the new option, "void") and
                   \* what it wrote to cout
    conv           \* the conversions the last AddOptionArg call performed:
                   \* <<i, argIdx>> for istringstream(argv[i+argIdx]) >> arg
                   \* followed by SetArgument(arg, argIdx-1)

vars == <<argv, optionVector, error, description, ret, conv>>

nbArgs == Len(argv)

Returned(op, val, out) == [op |-> op, val |-> val, out |-> out]

\* argv[i]; the empty string stands for a read past the end of argv, which
\* the source never performs.
ArgAt(i) == IF i >= 0 /\ i < nbArgs THEN argv[i + 1] ELSE <<>>

\* argv[i][c]
CharAt(i, c) == IF c >= 0 /\ c < Len(ArgAt(i)) THEN ArgAt(i)[c + 1] ELSE NUL

----------------------------------------------------------------------------
(* class Option and class OptionArg<T,N> *)

NewOption(flag, desc) ==
    [kind |-> "Option", flag |-> flag, description |-> desc, state |-> FALSE,
     required |-> FALSE, error |-> FALSE, nbArgs |-> 0, argVector |-> <<>>]

\* argVector is left uninitialized by the constructor: mem is what the
\* memory of the new object holds, the same in each of the N slots.
NewOptionArg(flag, desc, N, mem) ==
    [NewOption(flag, desc) EXCEPT
        !.kind = "OptionArg", !.nbArgs = N, !.argVector = [s \in 1..N |-> mem]]

Exists(option, state) == [option EXCEPT !.state = state]

SetRequired(option, r) == [option EXCEPT !.required = r]

RaiseError(option) == [option EXCEPT !.error = TRUE]

\* Mutant of SetArgument: the position is ignored, every value lands in
\* the first slot.
SetArgumentFirstSlot(option, arg, pos) == [option EXCEPT !.argVector[1] = arg]

SetArgument(option, arg, pos) == [option EXCEPT !.argVector[pos + 1] = arg]

GetArgument(option, pos) == option.argVector[pos + 1]

\* Option::CLUsage and OptionArg::CLUsage, as the pieces written to cout.
CLUsage(option) ==
    IF option.kind = "Option"
    THEN <<" [-", option.flag, "]">>
    ELSE <<" [-", option.flag>> \o [i \in 1..option.nbArgs |-> " x"] \o <<"]">>

----------------------------------------------------------------------------
(* std::istringstream >> int *)

Digits == {"0", "1", "2", "3", "4", "5", "6", "7", "8", "9"}

DigitVal(ch) ==
    CASE ch = "0" -> 0 [] ch = "1" -> 1 [] ch = "2" -> 2 [] ch = "3" -> 3
      [] ch = "4" -> 4 [] ch = "5" -> 5 [] ch = "6" -> 6 [] ch = "7" -> 7
      [] ch = "8" -> 8 [] ch = "9" -> 9

\* The digits of tok from position pos (from 1) on: how many, and their value.
RECURSIVE ReadDigits(_, _, _, _)
ReadDigits(tok, pos, n, acc) ==
    IF pos <= Len(tok) /\ tok[pos] \in Digits
    THEN ReadDigits(tok, pos + 1, n + 1, 10 * acc + DigitVal(tok[pos]))
    ELSE [n |-> n, val |-> acc]

\* argStream >> arg, then argStream.fail(): an optional sign, then at least
\* one digit; what follows the digits is left in the stream.
Extract(tok) ==
    LET signed == Len(tok) >= 1 /\ tok[1] \in {"-", "+"}
        r == ReadDigits(tok, IF signed THEN 2 ELSE 1, 0, 0)
    IN [fail |-> r.n = 0,
        val |-> IF signed /\ tok[1] = "-" THEN 0 - r.val ELSE r.val]

----------------------------------------------------------------------------
(* class Parser *)

\* argv[i][0] == '-'
IsOptionStatement(i) == CharAt(i, 0) = "-"

\* The while loop of AddOption over the characters of argv[i].
RECURSIVE ScanStatement(_, _, _)
ScanStatement(option, i, c) ==
    IF CharAt(i, c) = NUL
    THEN option
    ELSE ScanStatement(IF CharAt(i, c) = option.flag
                       THEN Exists(option, TRUE)
                       ELSE option,
                       i, c + 1)

\* The for loop of AddOption over argv[1 .. nbArgs-1].
RECURSIVE ScanOptions(_, _)
ScanOptions(option, i) ==
    IF i >= nbArgs
    THEN option
    ELSE ScanOptions(IF IsOptionStatement(i)
                     THEN ScanStatement(option, i, 0)
                     ELSE option,
                     i + 1)

\* Mutant of RequiredButNotFound: the option's state is not consulted.
RequiredOnly(option, required) == required

\* !option->Exists() && required
RequiredButNotFound(option, required) == ~option.state /\ required

\* Mutant of RaiseBoth: the parser's own flag is forgotten.
RaiseOptionOnly(st) == [st EXCEPT !.option = RaiseError(st.option)]

\* option->RaiseError(); this->error = true;  on the loop state st
RaiseBoth(st) == [st EXCEPT !.option = RaiseError(st.option), !.error = TRUE]

\* Mutant of ErrorAfter: the flag is assigned the outcome of this
\* declaration instead of being raised.
ErrorAssigned(err, failed) == failed

\* this->error after the required check of a declaration
ErrorAfter(err, failed) == IF failed THEN TRUE ELSE err

AddOption(flag, desc, required) ==
    LET option == ScanOptions(SetRequired(NewOption(flag, desc), required), 1)
        failed == RequiredButNotFound(option, required)
    IN /\ Len(optionVector) < MaxDecl
       /\ optionVector' =
             Append(optionVector, IF failed THEN RaiseError(option) ELSE option)
       /\ error' = ErrorAfter(error, failed)
       /\ ret' = Returned("AddOption", "option", <<>>)
       /\ conv' = {}
       /\ UNCHANGED <<argv, description>>

\* Mutant of IsProcessedOption: the flag is looked for at every position
\* after the dash, as AddOption does.
IsProcessedOptionAnywhere(option, i) ==
    \E c \in 1..Len(ArgAt(i)) : CharAt(i, c) = option.flag

\* argv[i][1] == option->Flag()
IsProcessedOption(option, i) == CharAt(i, 1) = option.flag

\* Mutant of NotEnoughArguments: the comparison is strict.
NotEnoughArgumentsOffByOne(option, i) == i + option.nbArgs > nbArgs

\* i + N >= this->nbArgs
NotEnoughArguments(option, i) == i + option.nbArgs >= nbArgs

\* The for loop over argIdx = 1 .. N.  junk is what the uninitialized local
\* arg holds after a failed extraction.
RECURSIVE ReadArguments(_, _, _, _)
ReadArguments(st, i, argIdx, junk) ==
    IF argIdx > st.option.nbArgs
    THEN st
    ELSE LET r == Extract(ArgAt(i + argIdx))
             arg == IF r.fail THEN junk ELSE r.val
             st1 == IF r.fail THEN RaiseBoth(st) ELSE st
         IN ReadArguments(
                [st1 EXCEPT !.option = SetArgument(st1.option, arg, argIdx - 1),
                            !.conv = @ \cup {<<i, argIdx>>}],
                i, argIdx + 1, junk)

\* The body of the for loop of AddOptionArg for one option statement argv[i].
MatchStatement(st, i, junk) ==
    IF IsProcessedOption(st.option, i)
    THEN LET st1 == [st EXCEPT !.option = Exists(st.option, TRUE)]
         IN IF NotEnoughArguments(st1.option, i)
            THEN RaiseBoth(st1)
            ELSE ReadArguments(st1, i, 1, junk)
    ELSE st

\* The for loop of AddOptionArg over argv[1 .. nbArgs-1].
RECURSIVE ScanOptionArgs(_, _, _)
ScanOptionArgs(st, i, junk) ==
    IF i >= nbArgs
    THEN st
    ELSE ScanOptionArgs(IF IsOptionStatement(i)
                        THEN MatchStatement(st, i, junk)
                        ELSE st,
                        i + 1, junk)

AddOptionArg(flag, desc, N, required, mem, junk) ==
    LET st == ScanOptionArgs(
                  [option |-> SetRequired(NewOptionArg(flag, desc, N, mem), required),
                   error |-> error, conv |-> {}],
                  1, junk)
        failed == RequiredButNotFound(st.option, required)
    IN /\ Len(optionVector) < MaxDecl
       /\ optionVector' =
             Append(optionVector,
                    IF failed THEN RaiseError(st.option) ELSE st.option)
       /\ error' = ErrorAfter(st.error, failed)
       /\ ret' = Returned("AddOptionArg", "option", <<>>)
       /\ conv' = st.conv
       /\ UNCHANGED <<argv, description>>

\* The second loop of Usage: one line per option.
RECURSIVE UsageDetails(_)
UsageDetails(options) ==
    IF options = <<>>
    THEN <<>>
    ELSE LET o == Head(options)
         IN << IF o.error THEN "     *\t" ELSE "\t",
               "-", o.flag, " : ", o.description, " (",
               IF o.required THEN "Required" ELSE "Optional",
               ").", "\n" >> \o UsageDetails(Tail(options))

\* Mutant of UsageTemplate: the options are taken from the back.
RECURSIVE UsageTemplateReversed(_)
UsageTemplateReversed(options) ==
    IF options = <<>>
    THEN <<>>
    ELSE UsageTemplateReversed(Tail(options)) \o CLUsage(Head(options))

\* The first loop of Usage: the command template.
RECURSIVE UsageTemplate(_)
UsageTemplate(options) ==
    IF options = <<>>
    THEN <<>>
    ELSE CLUsage(Head(options)) \o UsageTemplate(Tail(options))

\* Everything Usage writes to cout.
UsageText ==
    <<"\n", "Utility ">> \o ArgAt(0) \o <<" :", "\n">>
    \o <<"\n", description, "\n">>
    \o <<"\n", "Usage: \n [shell]$ ">> \o ArgAt(0)
    \o UsageTemplate(optionVector) \o <<"\n">>
    \o UsageDetails(optionVector)
    \o <<"* indicate(s) wrong argument(s).", "\n">>

Usage ==
    /\ ret' = Returned("Usage", "void", UsageText)
    /\ UNCHANGED <<argv, optionVector, error, description, conv>>

IsCommandLineValid ==
    /\ ret' = Returned("IsCommandLineValid",
                       IF ~error THEN "true" ELSE "false", <<>>)
    /\ UNCHANGED <<argv, optionVector, error, description, conv>>

SetDescription(desc) ==
    /\ description' = desc
    /\ ret' = Returned("SetDescription", "void", <<>>)
    /\ UNCHANGED <<argv, optionVector, error, conv>>

\* Parser::Parser over the command line cl.
Parser(cl, desc) ==
    /\ argv = cl
    /\ optionVector = <<>>
    /\ error = FALSE
    /\ description = desc
    /\ ret = Returned("Parser", "void", <<>>)
    /\ conv = {}

----------------------------------------------------------------------------
(* Specifications *)

DeclareOption ==
    \E flag \in FlagIds, required \in BOOLEAN :
        AddOption(flag, FlagDescription, required)

DeclareOptionArg ==
    \E flag \in FlagIds, required \in BOOLEAN, N \in 1..MaxArity :
        \E mem \in Indeterminate, junk \in Indeterminate :
            AddOptionArg(flag, FlagDescription, N, required, mem, junk)

Describe == \E desc \in Descriptions : SetDescription(desc)

\* A parser and any sequence of calls of its public methods.
Init == \E cl \in CommandLines(SeqTokens, MaxSeqArgs) : Parser(cl, "")

Next ==
    \/ DeclareOption
    \/ DeclareOptionArg
    \/ IsCommandLineValid
    \/ Usage
    \/ Describe

Spec == Init /\ [][Next]_vars

\* A parser over a longer command line and its first declaration.
InitDecl == \E cl \in CommandLines(Tokens, MaxArgs) : Parser(cl, "")

FirstOption == optionVector = <<>> /\ DeclareOption

FirstOptionArg == optionVector = <<>> /\ DeclareOptionArg

NextDecl ==
    \/ FirstOption
    \/ FirstOptionArg

SpecDecl == InitDecl /\ [][NextDecl]_vars

----------------------------------------------------------------------------
(* Vocabulary of the properties, stated on the raw command line *)

Declared == DOMAIN optionVector
Plain == {k \in Declared : optionVector[k].kind = "Option"}
Valued == {k \in Declared : optionVector[k].kind = "OptionArg"}

\* The indices the declarations scan: every token but the program name.
Scanned == 1..(nbArgs - 1)

\* Token i is an option statement: its first character is a dash.
Statement(i) == Len(ArgAt(i)) >= 1 /\ ArgAt(i)[1] = "-"

\* Character ch occurs in token i somewhere after its leading dash.
AfterDash(i, ch) ==
    Statement(i) /\ \E p \in 2..Len(ArgAt(i)) : ArgAt(i)[p] = ch

\* Token i matches the value flag k: a dash, then the flag's character.
Matches(k, i) ==
    Statement(i) /\ Len(ArgAt(i)) >= 2 /\ ArgAt(i)[2] = optionVector[k].flag

\* Token i matches k and at least N tokens follow it.
Sufficient(k, i) == Matches(k, i) /\ i + optionVector[k].nbArgs < nbArgs

\* Token i matches k and fewer than N tokens follow it.
Short(k, i) == Matches(k, i) /\ i + optionVector[k].nbArgs >= nbArgs

\* Token i matches k, N tokens follow it and each converts.
Good(k, i) ==
    /\ Sufficient(k, i)
    /\ \A a \in 1..optionVector[k].nbArgs : ~Extract(ArgAt(i + a)).fail

\* Token i is the last match of k that N tokens follow.
LastSufficient(k, i) ==
    Sufficient(k, i) /\ \A j \in Scanned : j > i => ~Sufficient(k, j)

\* The flag of declaration k occurs on the command line, in the sense of
\* its kind of flag.
OnCommandLine(k) ==
    IF k \in Plain
    THEN \E i \in Scanned : AfterDash(i, optionVector[k].flag)
    ELSE \E i \in Scanned : Matches(k, i)

----------------------------------------------------------------------------
(* C1 *)

\* C1: a plain flag exists exactly when some token after the program name
\* starts with a dash and holds the flag's character somewhere after that
\* dash.
PresenceCorrectness ==
    \A k \in Plain :
        optionVector[k].state
            <=> \E i \in Scanned : AfterDash(i, optionVector[k].flag)

\* What the scan computes instead: the leading dash is compared as well.
PresenceFromDash ==
    \A k \in Plain :
        optionVector[k].state
            <=> \E i \in Scanned :
                    Statement(i)
                    /\ \E p \in 1..Len(ArgAt(i)) : ArgAt(i)[p] = optionVector[k].flag

----------------------------------------------------------------------------
(* C2 *)

\* C2 as stated: a value flag exists only if some token after the program
\* name is exactly the dash followed by the flag's character.
ValueFlagIsolation ==
    \A k \in Valued :
        optionVector[k].state
            => \E i \in Scanned : ArgAt(i) = <<"-", optionVector[k].flag>>

\* C2 amended: a value flag exists exactly when some token after the program
\* name starts with a dash and has the flag's character as its second
\* character, whatever follows that character.
ValueFlagSecondCharacter ==
    \A k \in Valued :
        optionVector[k].state <=> \E i \in Scanned : Matches(k, i)

\* A value flag that exists although it never stands alone after a dash,
\* while a token holds its character in third position only.
ValueFlagSecondCharacterWitness ==
    \E k \in Valued :
        /\ optionVector[k].state
        /\ \A i \in Scanned : ArgAt(i) # <<"-", optionVector[k].flag>>
        /\ \E i \in Scanned : Len(ArgAt(i)) = 3 /\ Matches(k, i)

----------------------------------------------------------------------------
(* C3 *)

\* C3: when a token matches a value flag of arity N and fewer than N tokens
\* follow it, the flag exists and has an error, the command line is not
\* valid, and that match performed no conversion and wrote no slot.
ArityContract ==
    \A k \in Valued : \A i \in Scanned :
        Short(k, i)
            => /\ optionVector[k].state
               /\ optionVector[k].error
               /\ error
               /\ k = Len(optionVector) => \A e \in conv : e[1] # i

\* A declaration with one match that is too short and one that is not: the
\* latter was converted.
ArityContractWitness ==
    \E k \in Valued :
        /\ k = Len(optionVector)
        /\ \E i \in Scanned : Short(k, i)
        /\ \E j \in Scanned : Sufficient(k, j) /\ <<j, 1>> \in conv

----------------------------------------------------------------------------
(* C4 *)

\* C4: a required flag, plain or with values, that no token carries has an
\* error, and the command line is not valid.
RequiredAbsent ==
    \A k \in Declared :
        (optionVector[k].required /\ ~OnCommandLine(k))
            => optionVector[k].error /\ error

\* The same for the flags whose scan agrees with the rule of C1: every flag
\* but a plain flag whose character is the dash.
RequiredAbsentButDash ==
    \A k \in Declared :
        (/\ optionVector[k].required
         /\ ~OnCommandLine(k)
         /\ ~(k \in Plain /\ optionVector[k].flag = "-"))
            => optionVector[k].error /\ error

----------------------------------------------------------------------------
(* C5 *)

\* C5: the parser's error flag is set exactly when some declared option has
\* its error flag set.
AggregateError ==
    error <=> \E k \in Declared : optionVector[k].error

\* An error raised by the first declaration and kept over a second one
\* that raised none.
AggregateErrorWitness ==
    /\ Len(optionVector) = 2
    /\ optionVector[1].error
    /\ ~optionVector[2].error
    /\ error

----------------------------------------------------------------------------
(* C6 *)

\* C6 as stated: when a match of a value flag has N following tokens that
\* all convert, the flag exists and has no error, and slot s holds the
\* conversion of the token at distance s + 1 from the last match that N
\* tokens follow.
PositionalValues ==
    \A k \in Valued : \A i \in Scanned :
        Good(k, i)
            => /\ optionVector[k].state
               /\ ~optionVector[k].error
               /\ \A l \in Scanned :
                     LastSufficient(k, l)
                        => \A s \in 0..optionVector[k].nbArgs - 1 :
                              GetArgument(optionVector[k], s)
                                  = Extract(ArgAt(l + 1 + s)).val

\* C6 amended: such a flag exists; for the last match that N tokens follow,
\* slot s holds the conversion of the token at distance s + 1 whenever that
\* token converts; and the flag has no error exactly when every match has N
\* following tokens that all convert.
PositionalValuesOfLastMatch ==
    \A k \in Valued :
        /\ (\E i \in Scanned : Good(k, i)) =>
              /\ optionVector[k].state
              /\ ~optionVector[k].error
                    <=> \A j \in Scanned : Matches(k, j) => Good(k, j)
        /\ \A l \in Scanned :
              LastSufficient(k, l)
                 => \A s \in 0..optionVector[k].nbArgs - 1 :
                       ~Extract(ArgAt(l + 1 + s)).fail
                          => GetArgument(optionVector[k], s)
                                 = Extract(ArgAt(l + 1 + s)).val

\* Two matches that convert to different values: the slot holds the later.
PositionalValuesWitness ==
    \E k \in Valued : \E i, l \in Scanned :
        /\ i < l
        /\ Good(k, i)
        /\ Good(k, l)
        /\ LastSufficient(k, l)
        /\ Extract(ArgAt(i + 1)).val # Extract(ArgAt(l + 1)).val
        /\ GetArgument(optionVector[k], 0) = Extract(ArgAt(l + 1)).val
        /\ ~optionVector[k].error

\* Two slots filled in order from one match.
PositionalOrderWitness ==
    \E k \in Valued : \E i \in Scanned :
        /\ optionVector[k].nbArgs = 2
        /\ Good(k, i)
        /\ Extract(ArgAt(i + 1)).val # Extract(ArgAt(i + 2)).val
        /\ GetArgument(optionVector[k], 0) = Extract(ArgAt(i + 1)).val
        /\ GetArgument(optionVector[k], 1) = Extract(ArgAt(i + 2)).val

----------------------------------------------------------------------------
(* C7 *)

\* C7: a plain flag has an error exactly when it is required and does not
\* exist; a value flag has an error exactly when it is required and does
\* not exist, or a match has fewer than N following tokens, or one of the N
\* tokens following a match fails conversion.
ErrorTaxonomy ==
    /\ \A k \in Plain :
          optionVector[k].error
              <=> (optionVector[k].required /\ ~optionVector[k].state)
    /\ \A k \in Valued :
          optionVector[k].error
              <=> \/ optionVector[k].required /\ ~optionVector[k].state
                  \/ \E i \in Scanned : Short(k, i)
                  \/ \E i \in Scanned :
                        /\ Sufficient(k, i)
                        /\ \E a \in 1..optionVector[k].nbArgs :
                              Extract(ArgAt(i + a)).fail

\* An optional value flag whose only error is a failed conversion, and the
\* flag exists.
ErrorTaxonomyWitness ==
    \E k \in Valued :
        /\ optionVector[k].error
        /\ optionVector[k].state
        /\ ~optionVector[k].required
        /\ \A i \in Scanned : ~Short(k, i)

----------------------------------------------------------------------------
(* C8 *)

\* C8: the parser's error flag starts false and no call ever clears it;
\* while it is set, IsCommandLineValid returns false.
AggregateMonotone ==
    /\ ~error
    /\ [][error => /\ error'
                   /\ ret'.op = "IsCommandLineValid" => ret'.val = "false"]_vars

\* The command line was found invalid after a second declaration that
\* raised no error itself.
AggregateMonotoneWitness ==
    /\ Len(optionVector) = 2
    /\ optionVector[1].error
    /\ ~optionVector[2].error
    /\ ret.op = "IsCommandLineValid"
    /\ ret.val = "false"

----------------------------------------------------------------------------
(* C9 *)

\* The flag characters of the command template of a usage text: the piece
\* after every opening bracket.
RECURSIVE TemplateFlags(_)
TemplateFlags(out) ==
    IF Len(out) < 2
    THEN <<>>
    ELSE IF Head(out) = " [-"
         THEN <<out[2]>> \o TemplateFlags(Tail(Tail(out)))
         ELSE TemplateFlags(Tail(out))

\* The flag characters of the detail lines of a usage text: the second piece
\* after every line marker.
RECURSIVE DetailFlags(_)
DetailFlags(out) ==
    IF Len(out) < 3
    THEN <<>>
    ELSE IF Head(out) \in {"\t", "     *\t"}
         THEN <<out[3]>> \o DetailFlags(Tail(Tail(Tail(out))))
         ELSE DetailFlags(Tail(out))

DeclaredFlags == [k \in Declared |-> optionVector[k].flag]

\* C9: IsCommandLineValid and Usage change nothing of the parser or of its
\* options; Usage lists the options in declaration order, and two calls in
\* a row print the same text.
QueriesReadOnly ==
    [][ret'.op \in {"Usage", "IsCommandLineValid"}
          => /\ UNCHANGED <<argv, optionVector, error, description>>
             /\ ret'.op = "Usage"
                   => /\ TemplateFlags(ret'.out) = DeclaredFlags
                      /\ DetailFlags(ret'.out) = DeclaredFlags
             /\ (ret.op = "Usage" /\ ret'.op = "Usage")
                   => ret'.out = ret.out]_vars

\* A usage text of two options with different flags, the first in error.
QueriesReadOnlyWitness ==
    /\ ret.op = "Usage"
    /\ Len(optionVector) = 2
    /\ optionVector[1].flag # optionVector[2].flag
    /\ optionVector[1].error
    /\ TemplateFlags(ret.out) = DeclaredFlags

----------------------------------------------------------------------------
(* C10 *)

SameDeclaration(j, k) ==
    /\ optionVector[j].kind = optionVector[k].kind
    /\ optionVector[j].flag = optionVector[k].flag
    /\ optionVector[j].required = optionVector[k].required
    /\ optionVector[j].nbArgs = optionVector[k].nbArgs

\* C10: what a declaration gives its flag (state, error, value slots)
\* depends on the command line and on its own parameters only: two
\* declarations with the same parameters, whatever was declared before
\* each, give the same.
DeclarationIndependence ==
    \A j, k \in Declared :
        SameDeclaration(j, k)
            => /\ optionVector[j].state = optionVector[k].state
               /\ optionVector[j].error = optionVector[k].error
               /\ optionVector[j].argVector = optionVector[k].argVector

\* The part of C10 that the uninitialized slots leave alone: state, error
\* and the slots a conversion defined.
MatchingIndependence ==
    \A j, k \in Declared :
        SameDeclaration(j, k)
            => /\ optionVector[j].state = optionVector[k].state
               /\ optionVector[j].error = optionVector[k].error
               /\ \A l \in Scanned :
                     LastSufficient(k, l)
                        => \A s \in 0..optionVector[k].nbArgs - 1 :
                              ~Extract(ArgAt(l + 1 + s)).fail
                                 => GetArgument(optionVector[j], s)
                                        = GetArgument(optionVector[k], s)

====
